---- MODULE Spec2Model ----
(***************************************************************************)
(* The capture session of useRecorder (src/hooks/useRecorder.ts) together  *)
(* with the implicit reset effect of the Recorder component                *)
(* (src/unnamed/part_002).  One action per handler or callback: the hook's *)
(* operations, the continuation of startRecording after getUserMedia       *)
(* settles, the interval callback, the animation frame callback, the task  *)
(* in which a stopped MediaRecorder fires dataavailable and stop, and the  *)
(* passage of wall-clock time.  Spec lets the hook's operations be called  *)
(* in any state; SpecUI calls them as the controls of the Recorder         *)
(* component do, and SpecSession runs one session with three splits.  The  *)
(* AudioSplitter component (src/components/AudioSplitter.tsx) has its own  *)
(* variables and its own specifications; the capture session leaves them   *)
(* alone.                                                                  *)
(***************************************************************************)
EXTENDS Integers, Sequences, FiniteSets, TLC

\* ---------------------------------------------------------------- bounds
MaxStreams == 2
MaxSegments == 2
MaxTime == 2
MaxData == 1
MaxRms == 1
MaxSplits == 2
MaxJobs == 1
MaxOutputs == 11

\* ------------------------------------------------------- program values
Null == 0

\* the file of the AudioSplitter when it is null: a file is its name
NoFile == << >>

MimeTypes == {"audio/webm;codecs=opus", "audio/mp4"}

\* MediaRecorder.isTypeSupported of the browser: one format of the selector
\* is recordable and one is not (Firefox records WebM and no MP4).
SupportedTypes == {"audio/webm;codecs=opus"}

\* segmentDurationMinutes as passed by handleToggleRecording:
\* autoSplit ? splitDuration : 0
Durations == {0, 2}

\* what getUserMedia rejects with
Rejections ==
  { [isError |-> TRUE, name |-> "NotAllowedError", message |-> "Permission denied"],
    [isError |-> TRUE, name |-> "NotFoundError", message |-> "Requested device not found"],
    [isError |-> FALSE, name |-> "", message |-> ""] }

\* what the AudioContext setup throws
AnalysisError ==
  [isError |-> TRUE, name |-> "NotSupportedError", message |-> "The operation is not supported"]

\* what new MediaRecorder throws for a MIME type it cannot record
RecorderError ==
  [isError |-> TRUE, name |-> "NotSupportedError", message |-> "The operation is not supported"]

NoError == <<>>
MsgPermissionDenied == <<"microphone permission denied">>
MsgCannotStart(message) == <<"cannot start recording: ", message>>
MsgUnknown == <<"unknown error, cannot start recording">>

VARIABLES
  status,              \* useState<RecordingStatus>
  recordedChunks,      \* useState<SplitFile[]>
  error,               \* useState<string | null>
  volume,              \* useState(0)
  mediaRecorderRef,    \* id of a MediaRecorder, or Null
  streamRef,           \* id of a MediaStream, or Null
  segmentTimerRef,     \* id of an interval, or Null
  mimeTypeRef,
  segmentDurationRef,
  analyserRef,         \* audioContextRef, analyserRef and sourceNodeRef
  animationFrameIdRef, \* id of a requested animation frame, or Null
  recorders,           \* the MediaRecorder objects still reachable
  eventQueue,          \* stopped recorders whose dataavailable/stop task is queued
  liveStreams,         \* the MediaStreams whose tracks are live
  timers,              \* the armed intervals: id -> [period, due]
  frames,              \* the requested animation frames not yet run or cancelled
  pendingStarts,       \* startRecording calls awaiting getUserMedia
  now,                 \* wall clock, in minutes
  lastCall,            \* history: the last call of the hook's API that acted
  splitAt              \* history: when splitSegment last acted in this session, or -1

\* the state of the AudioSplitter component
VARIABLES
  file,                \* useState<File | null>: the name of the file, or NoFile
  splitDuration,       \* useState(25)
  splitterStatus,      \* useState<Status>
  progressRatio,       \* useState(0)
  splitterError,       \* useState<string | null>
  splitFiles,          \* useState<SplitFile[]>
  ffmpegRef,           \* id of an engine instance, or Null
  windowFFMPEG,        \* whether the script has defined window.FFMPEG
  engines,             \* the engine instances still reachable: id -> [FS, progressStatus, running]
  jobs,                \* the calls of handleSplit that await something: number -> job
  jobCount             \* history: the calls of handleSplit that passed the validation

splitterVars == << file, splitDuration, splitterStatus, progressRatio, splitterError,
                   splitFiles, ffmpegRef, windowFFMPEG, engines, jobs, jobCount >>

recorderVars == << status, recordedChunks, error, volume, mediaRecorderRef, streamRef,
                   segmentTimerRef, mimeTypeRef, segmentDurationRef, analyserRef,
                   animationFrameIdRef, recorders, eventQueue, liveStreams, timers,
                   frames, pendingStarts, now, lastCall, splitAt >>

vars == << recorderVars, splitterVars >>

Ids == 1..(MaxStreams + MaxSegments + 2)

ClockStart == 9 * 60 + 58

\* the smallest id that does not name a live object
FreshId(used) == CHOOSE i \in Ids : i \notin used /\ \A j \in Ids : j < i => j \in used

Range(s) == { s[i] : i \in 1..Len(s) }

Without(f, id) == [k \in DOMAIN f \ {id} |-> f[k]]

With(f, id, v) == [k \in DOMAIN f \cup {id} |-> IF k = id THEN v ELSE f[k]]

\* ------------------------------------------------------------ segment names
\* toString().padStart(2, '0') of a number below 100, as its two digits
padStart2(n) == << (n \div 10) % 10, n % 10 >>

\* `${year}${month}${day}${hours}${minutes}` of the clock value t; the clock
\* stays within one month, so the year and month digits are the same in
\* every name and are left out.
baseName(t) == padStart2(1 + t \div 1440) \o padStart2((t \div 60) % 24) \o padStart2(t % 60)

\* mimeType.split('/')[1].split(';')[0]
fileExtension(mimeType) ==
  CASE mimeType = "audio/webm;codecs=opus" -> "webm"
    [] mimeType = "audio/mp4" -> "mp4"

\* finalName that counts on from the highest suffix in use for the base name:
\* a name freed by deleteSegment is not given again
finalNameAfterLast(prev, base, ext, counter) ==
  LET taken == { prev[i].name.counter : i \in { k \in 1..Len(prev) :
                     prev[k].name.base = base /\ prev[k].name.ext = ext } }
  IN [base |-> base,
      counter |-> IF taken = {} THEN counter
                  ELSE 1 + CHOOSE c \in taken : \A d \in taken : d <= c,
      ext |-> ext]

\* finalName with the collision test comparing chunk.name with the bare
\* baseName, which no name equals: the first candidate is always taken
finalNameUnchecked(prev, base, ext, counter) ==
  [base |-> base, counter |-> counter, ext |-> ext]

\* A name is the record of its parts: counter 1 is `${baseName}.${ext}`,
\* counter c > 1 is `${baseName}_${c}.${ext}`.
RECURSIVE finalName(_, _, _, _)
finalName(prev, base, ext, counter) ==
  LET name == [base |-> base, counter |-> counter, ext |-> ext]
  IN IF \E i \in 1..Len(prev) : prev[i].name = name
     THEN finalName(prev, base, ext, counter + 1)
     ELSE name

\* blob.size of new Blob(chunks)
RECURSIVE blobSize(_)
blobSize(chunks) == IF chunks = <<>> THEN 0 ELSE Head(chunks) + blobSize(Tail(chunks))

\* ondataavailable that keeps no chunk
ondataavailableDropped(recorderChunks, size) == recorderChunks

\* mediaRecorder.ondataavailable: the chunk is kept if it is not empty
ondataavailable(recorderChunks, size) ==
  IF size > 0 THEN Append(recorderChunks, size) ELSE recorderChunks

\* onstop without the test of blob.size: every pass appends a segment
onstopUntested(prev, recorderChunks, mimeType, t) ==
  Append(prev, [name |-> finalName(prev, baseName(t), fileExtension(mimeType), 1),
                blob |-> recorderChunks])

\* mediaRecorder.onstop: the new value of recordedChunks
onstop(prev, recorderChunks, mimeType, t) ==
  IF blobSize(recorderChunks) > 0
  THEN Append(prev, [name |-> finalName(prev, baseName(t), fileExtension(mimeType), 1),
                     blob |-> recorderChunks])
  ELSE prev

\* -------------------------------------------------------------- recorders
isTypeSupported(mimeType) == mimeType = "" \/ mimeType \in SupportedTypes

\* new MediaRecorder(stream, { mimeType }) followed by start(); startedAt is
\* history: the minute in which start() was called
NewRecorder(mimeType) ==
  [state |-> "recording", mimeType |-> mimeType, data |-> 0,
   recorderChunks |-> <<>>, endedBy |-> "none", startedAt |-> now]

\* MediaRecorder.stop(): the recorder is inactive at once, its dataavailable
\* and stop events are fired by a task queued behind the ones already queued
stopped(recs, id, by) == [recs EXCEPT ![id].state = "inactive", ![id].endedBy = by]

Active(recs) == { r \in DOMAIN recs : recs[r].state = "recording" }

\* the recorders that still act: recording, or awaiting their events.  A
\* recorder that is inactive and has fired its events does nothing more; a
\* mediaRecorderRef that names none of these names such a recorder.
Reachable(recs, queue) ==
  [r \in { x \in DOMAIN recs : recs[x].state = "recording" \/ x \in Range(queue) }
     |-> recs[r]]

\* mediaRecorder.state === 'recording'
isRecording(recs, ref) == ref \in DOMAIN recs /\ recs[ref].state = "recording"

\* room for one more pass within MaxSegments
PassCapacity ==
  Len(recordedChunks) + Cardinality(Active(recorders) \cup Range(eventQueue)) < MaxSegments

\* ------------------------------------------------------------------- Init
Init ==
  /\ status = "idle"
  /\ recordedChunks = <<>>
  /\ error = NoError
  /\ volume = 0
  /\ mediaRecorderRef = Null
  /\ streamRef = Null
  /\ segmentTimerRef = Null
  /\ mimeTypeRef = ""
  /\ segmentDurationRef = 0
  /\ analyserRef = Null
  /\ animationFrameIdRef = Null
  /\ recorders = << >>
  /\ eventQueue = << >>
  /\ liveStreams = {}
  /\ timers = << >>
  /\ frames = {}
  /\ pendingStarts = << >>
  /\ now = ClockStart
  /\ lastCall = "none"
  /\ splitAt = -1
  /\ file = NoFile
  /\ splitDuration = 25
  /\ splitterStatus = "idle"
  /\ progressRatio = 0
  /\ splitterError = NoError
  /\ splitFiles = << >>
  /\ ffmpegRef = Null
  /\ windowFFMPEG = FALSE
  /\ engines = << >>
  /\ jobs = << >>
  /\ jobCount = 0

\* ---------------------------------------------------------- startRecording
\* startRecording that begins a session with an empty list
startRecordingCleared(mimeType, segmentDurationMinutes) ==
  /\ error' = NoError
  /\ IF status = "recording"
     THEN UNCHANGED << mimeTypeRef, segmentDurationRef, pendingStarts, lastCall, splitAt,
                       recordedChunks >>
     ELSE /\ Len(pendingStarts) + Cardinality(liveStreams) < MaxStreams
          /\ mimeTypeRef' = mimeType
          /\ segmentDurationRef' = segmentDurationMinutes
          /\ pendingStarts' = Append(pendingStarts,
                 [mimeType |-> mimeType, segmentDurationMinutes |-> segmentDurationMinutes])
          /\ lastCall' = "start"
          /\ splitAt' = -1
          /\ recordedChunks' = << >>
  /\ UNCHANGED << status, volume, mediaRecorderRef, streamRef,
                  segmentTimerRef, analyserRef, animationFrameIdRef, recorders,
                  eventQueue, liveStreams, timers, frames, now >>
  /\ UNCHANGED splitterVars

\* The call itself, up to the await of getUserMedia.
startRecording(mimeType, segmentDurationMinutes) ==
  /\ error' = NoError
  /\ IF status = "recording"
     THEN UNCHANGED << mimeTypeRef, segmentDurationRef, pendingStarts, lastCall, splitAt >>
     ELSE /\ Len(pendingStarts) + Cardinality(liveStreams) < MaxStreams
          /\ mimeTypeRef' = mimeType
          /\ segmentDurationRef' = segmentDurationMinutes
          /\ pendingStarts' = Append(pendingStarts,
                 [mimeType |-> mimeType, segmentDurationMinutes |-> segmentDurationMinutes])
          /\ lastCall' = "start"
          /\ splitAt' = -1
  /\ UNCHANGED << status, recordedChunks, volume, mediaRecorderRef, streamRef,
                  segmentTimerRef, analyserRef, animationFrameIdRef, recorders,
                  eventQueue, liveStreams, timers, frames, now >>
  /\ UNCHANGED splitterVars

Settled(i) == [k \in 1..(Len(pendingStarts) - 1) |->
                 IF k < i THEN pendingStarts[k] ELSE pendingStarts[k + 1]]

\* the catch block without the test err instanceof Error
catchUntested(err) ==
  IF err.name = "NotAllowedError" \/ err.name = "PermissionDeniedError"
  THEN MsgPermissionDenied
  ELSE MsgUnknown

\* the catch block of startRecording: the message for what was thrown
catch(err) ==
  IF err.isError
  THEN IF err.name = "NotAllowedError" \/ err.name = "PermissionDeniedError"
       THEN MsgPermissionDenied
       ELSE MsgCannotStart(err.message)
  ELSE MsgUnknown

\* getUserMedia rejects: the continuation is the catch block alone
startRejected(i, err) ==
  /\ i \in 1..Len(pendingStarts)
  /\ pendingStarts' = Settled(i)
  /\ error' = catch(err)
  /\ UNCHANGED << status, recordedChunks, volume, mediaRecorderRef, streamRef,
                  segmentTimerRef, mimeTypeRef, segmentDurationRef, analyserRef,
                  animationFrameIdRef, recorders, eventQueue, liveStreams, timers,
                  frames, now, lastCall, splitAt >>
  /\ UNCHANGED splitterVars

\* getUserMedia resolves, the stream is stored, and the AudioContext setup
\* throws before the three audio refs are assigned
startAnalysisFailed(i) ==
  /\ i \in 1..Len(pendingStarts)
  /\ pendingStarts' = Settled(i)
  /\ LET stream == FreshId(liveStreams)
     IN /\ liveStreams' = liveStreams \cup {stream}
        /\ streamRef' = stream
  /\ error' = catch(AnalysisError)
  /\ UNCHANGED << status, recordedChunks, volume, mediaRecorderRef,
                  segmentTimerRef, mimeTypeRef, segmentDurationRef, analyserRef,
                  animationFrameIdRef, recorders, eventQueue, timers,
                  frames, now, lastCall, splitAt >>
  /\ UNCHANGED splitterVars

\* getUserMedia resolves, the analyser is installed and draw() has run once
\* (lines 100-131): what every continuation that reaches startNewSegment does
startAnalysing(i, rms) ==
  /\ i \in 1..Len(pendingStarts)
  /\ pendingStarts' = Settled(i)
  /\ LET stream == FreshId(liveStreams)
         frame == FreshId(frames)
     IN /\ liveStreams' = liveStreams \cup {stream}
        /\ streamRef' = stream
        /\ analyserRef' = stream
        /\ volume' = rms
        /\ frames' = frames \cup {frame}
        /\ animationFrameIdRef' = frame
  /\ UNCHANGED splitterVars

\* new MediaRecorder throws for the MIME type of the call: the catch block
\* runs with the stream, the analyser and the frame loop in place
startRecorderFailed(i, rms) ==
  /\ startAnalysing(i, rms)
  /\ ~ isTypeSupported(pendingStarts[i].mimeType)
  /\ error' = catch(RecorderError)
  /\ UNCHANGED << status, recordedChunks, mediaRecorderRef, segmentTimerRef,
                  mimeTypeRef, segmentDurationRef, recorders, eventQueue, timers,
                  now, lastCall, splitAt >>
  /\ UNCHANGED splitterVars

\* the continuation runs to its end: first pass started, status set, timer armed
startCompleted(i, rms) ==
  /\ startAnalysing(i, rms)
  /\ isTypeSupported(pendingStarts[i].mimeType)
  /\ LET recorder == FreshId(DOMAIN recorders)
         timer == FreshId(DOMAIN timers)
         period == pendingStarts[i].segmentDurationMinutes
     IN /\ recorders' = With(recorders, recorder, NewRecorder(pendingStarts[i].mimeType))
        /\ mediaRecorderRef' = recorder
        /\ IF period > 0
           THEN /\ timers' = With(timers, timer, [period |-> period, due |-> now + period])
                /\ segmentTimerRef' = timer
           ELSE UNCHANGED << timers, segmentTimerRef >>
  /\ status' = "recording"
  /\ UNCHANGED << recordedChunks, error, mimeTypeRef, segmentDurationRef,
                  eventQueue, now, lastCall, splitAt >>
  /\ UNCHANGED splitterVars

\* startCompleted within MaxSegments
startSucceeded(i, rms) ==
  /\ PassCapacity
  /\ startCompleted(i, rms)

\* -------------------------------------------------------- createNewSegment
\* What createNewSegment does to the recorders: the current recorder is
\* stopped if it is recording, and a new one is started on streamRef.current
\* with mimeTypeRef.current; threw tells that new MediaRecorder threw, after
\* the stop.
createNewSegment ==
  LET stops == mediaRecorderRef # Null /\ isRecording(recorders, mediaRecorderRef)
      recs == IF stops THEN stopped(recorders, mediaRecorderRef, "rotation") ELSE recorders
      queue == IF stops THEN Append(eventQueue, mediaRecorderRef) ELSE eventQueue
      starts == streamRef # Null /\ isTypeSupported(mimeTypeRef)
      recorder == FreshId(DOMAIN recs)
  IN [ threw |-> streamRef # Null /\ ~ isTypeSupported(mimeTypeRef),
       started |-> starts,
       eventQueue |-> queue,
       mediaRecorderRef |-> IF starts THEN recorder ELSE mediaRecorderRef,
       recorders |-> IF starts
                     THEN With(recs, recorder, NewRecorder(mimeTypeRef))
                     ELSE recs ]

\* the interval armed by setInterval(createNewSegment, minutes * 60 * 1000)
\* comes due: an automatic rotation
intervalFires(timer) ==
  /\ timer \in DOMAIN timers
  /\ timers[timer].due = now
  /\ createNewSegment.started => PassCapacity
  /\ recorders' = createNewSegment.recorders
  /\ eventQueue' = createNewSegment.eventQueue
  /\ mediaRecorderRef' = createNewSegment.mediaRecorderRef
  /\ timers' = [timers EXCEPT ![timer].due = now + timers[timer].period]
  /\ UNCHANGED << status, recordedChunks, error, volume, streamRef, segmentTimerRef,
                  mimeTypeRef, segmentDurationRef, analyserRef, animationFrameIdRef,
                  liveStreams, frames, pendingStarts, now, lastCall, splitAt >>
  /\ UNCHANGED splitterVars

\* ------------------------------------------------------------ splitSegment
\* splitSegment past the test of status at its first line
splitSegmentActs ==
  /\ recorders' = createNewSegment.recorders
  /\ eventQueue' = createNewSegment.eventQueue
  /\ mediaRecorderRef' = createNewSegment.mediaRecorderRef
  /\ IF createNewSegment.threw
     THEN UNCHANGED << timers, segmentTimerRef >>
     ELSE LET cleared == IF segmentTimerRef # Null
                         THEN Without(timers, segmentTimerRef) ELSE timers
              timer == FreshId(DOMAIN cleared)
          IN IF segmentDurationRef > 0
             THEN /\ timers' = With(cleared, timer,
                         [period |-> segmentDurationRef, due |-> now + segmentDurationRef])
                  /\ segmentTimerRef' = timer
             ELSE /\ timers' = cleared
                  /\ UNCHANGED segmentTimerRef
  /\ lastCall' = "other"
  /\ splitAt' = now
  /\ UNCHANGED << status, recordedChunks, error, volume, streamRef, mimeTypeRef,
                  segmentDurationRef, analyserRef, animationFrameIdRef,
                  liveStreams, frames, pendingStarts, now >>
  /\ UNCHANGED splitterVars

\* splitSegment without the test of status at its first line
splitSegmentUntested ==
  /\ createNewSegment.started => PassCapacity
  /\ splitSegmentActs

\* the pass it starts stays within MaxSegments
splitSegment ==
  IF status # "recording"
  THEN UNCHANGED vars
  ELSE /\ createNewSegment.started => PassCapacity
       /\ splitSegmentActs

\* ------------------------------------------------------------ stopRecording
\* cleanupAudioContext: the values it leaves
cleanupAudioContext ==
  [ frames |-> IF animationFrameIdRef # Null THEN frames \ {animationFrameIdRef} ELSE frames,
    animationFrameIdRef |-> Null,
    analyserRef |-> Null,
    volume |-> 0 ]

\* stopRecordingResult with the test of its first line reading the ref alone:
\* a stopped session is stopped again
stopRecordingResultUntested ==
  IF mediaRecorderRef = Null
  THEN [ acted |-> FALSE,
         frames |-> frames, animationFrameIdRef |-> animationFrameIdRef,
         analyserRef |-> analyserRef, volume |-> volume,
         timers |-> timers, segmentTimerRef |-> segmentTimerRef,
         recorders |-> recorders, eventQueue |-> eventQueue,
         liveStreams |-> liveStreams, streamRef |-> streamRef,
         status |-> status ]
  ELSE LET stops == isRecording(recorders, mediaRecorderRef)
       IN [ acted |-> TRUE,
            frames |-> cleanupAudioContext.frames,
            animationFrameIdRef |-> cleanupAudioContext.animationFrameIdRef,
            analyserRef |-> cleanupAudioContext.analyserRef,
            volume |-> cleanupAudioContext.volume,
            timers |-> IF segmentTimerRef # Null
                       THEN Without(timers, segmentTimerRef) ELSE timers,
            segmentTimerRef |-> Null,
            recorders |-> IF stops THEN stopped(recorders, mediaRecorderRef, "stop")
                          ELSE recorders,
            eventQueue |-> IF stops THEN Append(eventQueue, mediaRecorderRef)
                           ELSE eventQueue,
            liveStreams |-> IF streamRef # Null THEN liveStreams \ {streamRef}
                            ELSE liveStreams,
            streamRef |-> Null,
            status |-> "stopped" ]

\* the values stopRecording leaves; the current values when it returns at its
\* first line
stopRecordingResult ==
  IF status # "recording" \/ mediaRecorderRef = Null
  THEN [ acted |-> FALSE,
         frames |-> frames, animationFrameIdRef |-> animationFrameIdRef,
         analyserRef |-> analyserRef, volume |-> volume,
         timers |-> timers, segmentTimerRef |-> segmentTimerRef,
         recorders |-> recorders, eventQueue |-> eventQueue,
         liveStreams |-> liveStreams, streamRef |-> streamRef,
         status |-> status ]
  ELSE LET stops == isRecording(recorders, mediaRecorderRef)
       IN [ acted |-> TRUE,
            frames |-> cleanupAudioContext.frames,
            animationFrameIdRef |-> cleanupAudioContext.animationFrameIdRef,
            analyserRef |-> cleanupAudioContext.analyserRef,
            volume |-> cleanupAudioContext.volume,
            timers |-> IF segmentTimerRef # Null
                       THEN Without(timers, segmentTimerRef) ELSE timers,
            segmentTimerRef |-> Null,
            recorders |-> IF stops THEN stopped(recorders, mediaRecorderRef, "stop")
                          ELSE recorders,
            eventQueue |-> IF stops THEN Append(eventQueue, mediaRecorderRef)
                           ELSE eventQueue,
            liveStreams |-> IF streamRef # Null THEN liveStreams \ {streamRef}
                            ELSE liveStreams,
            streamRef |-> Null,
            status |-> "stopped" ]

stopRecording ==
  LET r == stopRecordingResult
  IN /\ frames' = r.frames
     /\ animationFrameIdRef' = r.animationFrameIdRef
     /\ analyserRef' = r.analyserRef
     /\ volume' = r.volume
     /\ timers' = r.timers
     /\ segmentTimerRef' = r.segmentTimerRef
     /\ recorders' = r.recorders
     /\ eventQueue' = r.eventQueue
     /\ liveStreams' = r.liveStreams
     /\ streamRef' = r.streamRef
     /\ status' = r.status
     /\ lastCall' = IF r.acted THEN "stop" ELSE lastCall
     /\ splitAt' = IF r.acted THEN -1 ELSE splitAt
     /\ UNCHANGED << recordedChunks, error, mediaRecorderRef, mimeTypeRef,
                     segmentDurationRef, pendingStarts, now >>
     /\ UNCHANGED splitterVars

\* ----------------------------------------------------------- resetRecording
\* the body of resetRecording, for the call and for the implicit reset
resetRecordingBody ==
  LET r == IF status = "recording"
           THEN stopRecordingResult
           ELSE [ stopRecordingResult EXCEPT
                    !.frames = cleanupAudioContext.frames,
                    !.animationFrameIdRef = cleanupAudioContext.animationFrameIdRef,
                    !.analyserRef = cleanupAudioContext.analyserRef,
                    !.volume = cleanupAudioContext.volume ]
  IN /\ frames' = r.frames
     /\ animationFrameIdRef' = r.animationFrameIdRef
     /\ analyserRef' = r.analyserRef
     /\ volume' = r.volume
     /\ status' = "idle"
     /\ recordedChunks' = << >>
     /\ mediaRecorderRef' = Null
     /\ recorders' = r.recorders
     /\ eventQueue' = r.eventQueue
     /\ liveStreams' = IF r.streamRef # Null THEN r.liveStreams \ {r.streamRef}
                       ELSE r.liveStreams
     /\ streamRef' = Null
     /\ timers' = IF r.segmentTimerRef # Null THEN Without(r.timers, r.segmentTimerRef)
                  ELSE r.timers
     /\ segmentTimerRef' = Null
     /\ error' = NoError
     /\ UNCHANGED << mimeTypeRef, segmentDurationRef, pendingStarts, now >>
     /\ UNCHANGED splitterVars

resetRecording ==
  /\ resetRecordingBody
  /\ lastCall' = "reset"
  /\ splitAt' = -1

\* the effect of the Recorder component: a stopped session without segments
\* is reset
handleReset ==
  /\ status = "stopped"
  /\ Len(recordedChunks) = 0
  /\ resetRecordingBody
  /\ UNCHANGED << lastCall, splitAt >>

\* ------------------------------------------------------------ deleteSegment
\* filter with the positions counted from 1
filterFromOne(prev, indexToDelete) ==
  LET keep == { i \in 1..Len(prev) : i # indexToDelete }
  IN [k \in 1..Cardinality(keep) |->
        prev[CHOOSE i \in keep : Cardinality({ j \in keep : j < i }) = k - 1]]

\* prev.filter((_, index) => index !== indexToDelete), indices from 0
filter(prev, indexToDelete) ==
  LET keep == { i \in 1..Len(prev) : i - 1 # indexToDelete }
  IN [k \in 1..Cardinality(keep) |->
        prev[CHOOSE i \in keep : Cardinality({ j \in keep : j < i }) = k - 1]]

deleteSegment(indexToDelete) ==
  /\ UNCHANGED << status, error, volume, mediaRecorderRef, streamRef, segmentTimerRef,
                  mimeTypeRef, segmentDurationRef, analyserRef, animationFrameIdRef,
                  recorders, eventQueue, liveStreams, timers, frames, pendingStarts, now,
                  splitAt >>
  /\ recordedChunks' = filter(recordedChunks, indexToDelete)
  /\ lastCall' = IF recordedChunks' # recordedChunks THEN "other" ELSE lastCall
  /\ UNCHANGED splitterVars

\* ---------------------------------------------------------------- callbacks
\* a requested animation frame runs draw
draw(frame, rms) ==
  /\ frame \in frames
  /\ IF analyserRef = Null
     THEN /\ frames' = frames \ {frame}
          /\ UNCHANGED << volume, animationFrameIdRef >>
     ELSE LET next == FreshId(frames \ {frame})
          IN /\ volume' = rms
             /\ frames' = (frames \ {frame}) \cup {next}
             /\ animationFrameIdRef' = next
  /\ UNCHANGED << status, recordedChunks, error, mediaRecorderRef, streamRef,
                  segmentTimerRef, mimeTypeRef, segmentDurationRef, analyserRef,
                  recorders, eventQueue, liveStreams, timers, pendingStarts, now,
                  lastCall, splitAt >>
  /\ UNCHANGED splitterVars

\* a recording MediaRecorder gathers audio from its stream
gather(recorder) ==
  /\ recorder \in Active(recorders)
  /\ recorders[recorder].data < MaxData
  /\ recorders' = [recorders EXCEPT ![recorder].data = @ + 1]
  /\ UNCHANGED << status, recordedChunks, error, volume, mediaRecorderRef, streamRef,
                  segmentTimerRef, mimeTypeRef, segmentDurationRef, analyserRef,
                  animationFrameIdRef, eventQueue, liveStreams, timers, frames,
                  pendingStarts, now, lastCall, splitAt >>
  /\ UNCHANGED splitterVars

\* recorderStopped with one chunk array shared by every pass: the array still
\* holds the chunks of the segments made before
recorderStoppedShared ==
  /\ eventQueue # << >>
  /\ LET recorder == Head(eventQueue)
         rec == recorders[recorder]
         shared == IF recordedChunks = << >> THEN rec.recorderChunks
                   ELSE recordedChunks[Len(recordedChunks)].blob
         chunks == ondataavailable(shared, rec.data)
     IN /\ recordedChunks' = onstop(recordedChunks, chunks, rec.mimeType, now)
        /\ recorders' = Reachable(recorders, Tail(eventQueue))
  /\ eventQueue' = Tail(eventQueue)
  /\ UNCHANGED << status, error, volume, mediaRecorderRef, streamRef, segmentTimerRef,
                  mimeTypeRef, segmentDurationRef, analyserRef, animationFrameIdRef,
                  liveStreams, timers, frames, pendingStarts, now, lastCall, splitAt >>
  /\ UNCHANGED splitterVars

\* recorderStopped with the date of the name taken when the pass started
recorderStoppedAtStart ==
  /\ eventQueue # << >>
  /\ LET recorder == Head(eventQueue)
         rec == recorders[recorder]
         chunks == ondataavailable(rec.recorderChunks, rec.data)
     IN /\ recordedChunks' = onstop(recordedChunks, chunks, rec.mimeType, rec.startedAt)
        /\ recorders' = Reachable(recorders, Tail(eventQueue))
  /\ eventQueue' = Tail(eventQueue)
  /\ UNCHANGED << status, error, volume, mediaRecorderRef, streamRef, segmentTimerRef,
                  mimeTypeRef, segmentDurationRef, analyserRef, animationFrameIdRef,
                  liveStreams, timers, frames, pendingStarts, now, lastCall, splitAt >>
  /\ UNCHANGED splitterVars

\* the task queued by MediaRecorder.stop(): dataavailable with the gathered
\* data, then stop, on the recorder at the head of the queue
recorderStopped ==
  /\ eventQueue # << >>
  /\ LET recorder == Head(eventQueue)
         rec == recorders[recorder]
         chunks == ondataavailable(rec.recorderChunks, rec.data)
     IN /\ recordedChunks' = onstop(recordedChunks, chunks, rec.mimeType, now)
        /\ recorders' = Reachable(recorders, Tail(eventQueue))
  /\ eventQueue' = Tail(eventQueue)
  /\ UNCHANGED << status, error, volume, mediaRecorderRef, streamRef, segmentTimerRef,
                  mimeTypeRef, segmentDurationRef, analyserRef, animationFrameIdRef,
                  liveStreams, timers, frames, pendingStarts, now, lastCall, splitAt >>
  /\ UNCHANGED splitterVars

\* a minute passes; an interval that is due runs first
minutePasses ==
  /\ \A timer \in DOMAIN timers : timers[timer].due > now
  /\ now' = now + 1
  /\ UNCHANGED << status, recordedChunks, error, volume, mediaRecorderRef, streamRef,
                  segmentTimerRef, mimeTypeRef, segmentDurationRef, analyserRef,
                  animationFrameIdRef, recorders, eventQueue, liveStreams, timers,
                  frames, pendingStarts, lastCall, splitAt >>
  /\ UNCHANGED splitterVars

\* the clock within MaxTime
tick ==
  /\ now < ClockStart + MaxTime
  /\ minutePasses

\* -------------------------------------------------------------------- Next
Next ==
  \/ \E mimeType \in MimeTypes, minutes \in Durations : startRecording(mimeType, minutes)
  \/ \E i \in 1..MaxStreams, err \in Rejections : startRejected(i, err)
  \/ \E i \in 1..MaxStreams : startAnalysisFailed(i)
  \/ \E i \in 1..MaxStreams, rms \in 1..MaxRms : startRecorderFailed(i, rms)
  \/ \E i \in 1..MaxStreams, rms \in 1..MaxRms : startSucceeded(i, rms)
  \/ \E timer \in Ids : intervalFires(timer)
  \/ splitSegment
  \/ stopRecording
  \/ resetRecording
  \/ handleReset
  \/ \E index \in (-1)..MaxSegments : deleteSegment(index)
  \/ \E frame \in Ids, rms \in 1..MaxRms : draw(frame, rms)
  \/ \E recorder \in Ids : gather(recorder)
  \/ recorderStopped
  \/ tick

Spec == Init /\ [][Next]_vars

\* ------------------------------------------------ the Recorder component
\* The controls of the Recorder component (src/unnamed/part_002) as the
\* callers of the hook: what a user of the page can make it do.

\* the round button: stopRecording when recording, else startRecording with
\* the selected format and autoSplit ? splitDuration : 0
handleToggleRecording(audioFormat, minutes) ==
  IF status = "recording"
  THEN stopRecording
  ELSE startRecording(audioFormat, minutes)

\* the split button is rendered while recording
clickSplit ==
  /\ status = "recording"
  /\ splitSegment

\* the delete button of a segment without its disabled attribute
clickDeleteEnabled(index) ==
  /\ index \in 0..(Len(recordedChunks) - 1)
  /\ deleteSegment(index)

\* the delete button of a segment, disabled while recording:
\* deleteSegment(recordedChunks.indexOf(file))
clickDelete(index) ==
  /\ status # "recording"
  /\ index \in 0..(Len(recordedChunks) - 1)
  /\ deleteSegment(index)

\* the reset button is rendered under a list that is not empty, when not
\* recording
clickReset ==
  /\ status # "recording"
  /\ Len(recordedChunks) > 0
  /\ resetRecording

NextUI ==
  \/ \E audioFormat \in MimeTypes, minutes \in Durations :
        handleToggleRecording(audioFormat, minutes)
  \/ clickSplit
  \/ \E index \in 0..(MaxSegments - 1) : clickDelete(index)
  \/ clickReset
  \/ handleReset
  \/ \E i \in 1..MaxStreams, err \in Rejections : startRejected(i, err)
  \/ \E i \in 1..MaxStreams : startAnalysisFailed(i)
  \/ \E i \in 1..MaxStreams, rms \in 1..MaxRms : startRecorderFailed(i, rms)
  \/ \E i \in 1..MaxStreams, rms \in 1..MaxRms : startSucceeded(i, rms)
  \/ \E timer \in Ids : intervalFires(timer)
  \/ \E frame \in Ids, rms \in 1..MaxRms : draw(frame, rms)
  \/ \E recorder \in Ids : gather(recorder)
  \/ recorderStopped
  \/ tick

SpecUI == Init /\ [][NextUI]_vars

\* --------------------------------------- a session with three manual splits
\* One session without auto-split in which splitSegment is called in the
\* minute of the start and 5 and 10 minutes later, and stopRecording after
\* the third split; a pass cut in the minute in which it started has audio
\* or not, and the stop events are handled when the browser gets to them.
Format == "audio/webm;codecs=opus"
SplitTimes == {0, 5, 10}
LastSplit == 10
SessionEnd == 11

startsSession ==
  /\ lastCall = "none"
  /\ startRecording(Format, 0)

sessionStarted ==
  \E rms \in 1..MaxRms : startCompleted(1, rms)

\* the split of this minute, once
splitsSession ==
  /\ status = "recording"
  /\ (now - ClockStart) \in SplitTimes
  /\ splitAt # now
  /\ splitSegmentActs

stopsSession ==
  /\ status = "recording"
  /\ splitAt = ClockStart + LastSplit
  /\ stopRecording

\* the clock of the session: it waits for the split of a minute that has
\* one, and a recorder that records through the end of a minute has audio
sessionMinutePasses ==
  /\ lastCall # "none"
  /\ pendingStarts = << >>
  /\ now < ClockStart + SessionEnd
  /\ \A r \in Active(recorders) : recorders[r].data > 0
  /\ (status = "recording" /\ (now - ClockStart) \in SplitTimes) => splitAt = now
  /\ minutePasses

NextSession ==
  \/ startsSession
  \/ sessionStarted
  \/ splitsSession
  \/ stopsSession
  \/ handleReset
  \/ \E frame \in Ids, rms \in 1..MaxRms : draw(frame, rms)
  \/ \E recorder \in Ids : gather(recorder)
  \/ recorderStopped
  \/ sessionMinutePasses

SpecSession == Init /\ [][NextSession]_vars

\* ======================================================= the AudioSplitter
\* src/components/AudioSplitter.tsx.  A string is the sequence of its
\* characters.

\* the files the user picks from
FileNames ==
  { <<"t","a","l","k",".","M","P","3">>,
    <<"i","n",".","m","p","3">>,
    <<"m","e","m","o">> }

\* what the duration input can be set to: Number(e.target.value)
SplitDurations == {0, 25}

\* how many segments a run of the engine writes: none, one, or many
OutputCounts == {0, 1, MaxOutputs}

\* the polls of window.FFMPEG that schedule another one: attempts < 50
MaxAttempts == 50

MsgSelectFile == <<"select an audio file first">>
MsgDuration == <<"split duration must be greater than 0">>
MsgEngine == <<"cannot load the processing engine (FFMPEG)">>
MsgNoSegments == <<"no segments were made">>
MsgProcessing == <<"an error occurred while processing">>

\* the root directory of a fresh MEMFS of the engine
DirEntries == << <<".">>, <<".",".">>, <<"t","m","p">>, <<"h","o","m","e">>,
                 <<"d","e","v">>, <<"p","r","o","c">> >>

Digits == <<"0","1","2","3","4","5","6","7","8","9">>

Lower == <<"a","b","c","d","e","f","g","h","i","j","k","l","m",
           "n","o","p","q","r","s","t","u","v","w","x","y","z">>

Upper == <<"A","B","C","D","E","F","G","H","I","J","K","L","M",
           "N","O","P","Q","R","S","T","U","V","W","X","Y","Z">>

indexIn(chars, c) == CHOOSE i \in 1..Len(chars) : chars[i] = c

isDigit(c) == c \in Range(Digits)

\* String.prototype.toLowerCase
toLowerCase(s) ==
  [i \in 1..Len(s) |-> IF s[i] \in Range(Upper) THEN Lower[indexIn(Upper, s[i])] ELSE s[i]]

\* String.prototype.lastIndexOf of one character: an index from 0, or -1
lastIndexOf(s, c) ==
  IF \E i \in 1..Len(s) : s[i] = c
  THEN (CHOOSE i \in 1..Len(s) : s[i] = c /\ \A j \in (i + 1)..Len(s) : s[j] # c) - 1
  ELSE -1

\* String.prototype.substring: both indices are clamped to 0..length and
\* swapped if the first is the larger
substring(s, indexStart, indexEnd) ==
  LET clamp(i) == IF i < 0 THEN 0 ELSE IF i > Len(s) THEN Len(s) ELSE i
      a == clamp(indexStart)
      b == clamp(indexEnd)
  IN IF a <= b THEN SubSeq(s, a + 1, b) ELSE SubSeq(s, b + 1, a)

\* s.split('.').pop(): what follows the last dot, the whole of s without one
splitPop(s) == SubSeq(s, lastIndexOf(s, ".") + 2, Len(s))

\* String.prototype.startsWith
startsWith(s, prefix) ==
  Len(prefix) <= Len(s) /\ SubSeq(s, 1, Len(prefix)) = prefix

\* Number.prototype.toString of a natural number
RECURSIVE toString(_)
toString(n) ==
  IF n < 10 THEN << Digits[n + 1] >> ELSE toString(n \div 10) \o << Digits[(n % 10) + 1] >>

\* %03d of the segment muxer: at least three digits
pad3(n) ==
  LET d == toString(n)
  IN IF Len(d) >= 3 THEN d ELSE [i \in 1..(3 - Len(d)) |-> "0"] \o d

\* file.name.split('.').pop()?.toLowerCase() || 'mp3'
originalExtension(name) ==
  LET ext == toLowerCase(splitPop(name))
  IN IF ext = << >> THEN <<"m","p","3">> ELSE ext

\* `input.${originalExtension}`
inputFileName(name) == <<"i","n","p","u","t",".">> \o originalExtension(name)

\* file.name.substring(0, file.name.lastIndexOf('.'))
sourceBaseName(name) == substring(name, 0, lastIndexOf(name, "."))

\* `${baseName}_%03d.${originalExtension}` with the number n
outputName(name, n) ==
  sourceBaseName(name) \o <<"_">> \o pad3(n) \o <<".">> \o originalExtension(name)

\* the rank of a character in the collation of localeCompare: punctuation,
\* digits, letters, a lower-case letter before its capital
collationRank(c) ==
  CASE c = "_" -> 1
    [] c = "." -> 2
    [] isDigit(c) -> 2 + indexIn(Digits, c)
    [] c \in Range(Lower) -> 11 + 2 * indexIn(Lower, c)
    [] c \in Range(Upper) -> 12 + 2 * indexIn(Upper, c)

\* the digits a string begins with
RECURSIVE digitRun(_)
digitRun(s) ==
  IF s # << >> /\ isDigit(Head(s)) THEN << Head(s) >> \o digitRun(Tail(s)) ELSE << >>

\* the number a sequence of digits denotes
RECURSIVE numberOf(_)
numberOf(d) ==
  IF d = << >> THEN 0
  ELSE 10 * numberOf(SubSeq(d, 1, Len(d) - 1)) + (indexIn(Digits, d[Len(d)]) - 1)

\* a.localeCompare(b, undefined, { numeric: true }): negative, zero or
\* positive; runs of digits are compared as numbers
RECURSIVE localeCompare(_, _)
localeCompare(a, b) ==
  IF a = << >> \/ b = << >>
  THEN (IF a = << >> THEN 0 ELSE 1) - (IF b = << >> THEN 0 ELSE 1)
  ELSE IF isDigit(Head(a)) /\ isDigit(Head(b))
  THEN LET da == digitRun(a)
           db == digitRun(b)
       IN IF numberOf(da) # numberOf(db)
          THEN (IF numberOf(da) < numberOf(db) THEN -1 ELSE 1)
          ELSE localeCompare(SubSeq(a, Len(da) + 1, Len(a)), SubSeq(b, Len(db) + 1, Len(b)))
  ELSE IF collationRank(Head(a)) # collationRank(Head(b))
  THEN (IF collationRank(Head(a)) < collationRank(Head(b)) THEN -1 ELSE 1)
  ELSE localeCompare(Tail(a), Tail(b))

\* the names a working area of the model can hold
WorkingAreaNames ==
  Range(DirEntries) \cup { inputFileName(name) : name \in FileNames }
    \cup { outputName(name, n) : name \in FileNames, n \in 0..(MaxOutputs - 1) }

\* localeCompare of every two of them, computed once
compared ==
  [a \in WorkingAreaNames |-> [b \in WorkingAreaNames |-> localeCompare(a, b)]]

\* blobs left in the order they were read in
unsorted(blobs) == blobs

\* blobs.sort((a, b) => a.name.localeCompare(b.name, undefined, {numeric: true})):
\* Array.prototype.sort is stable
RECURSIVE sort(_)
sort(blobs) ==
  IF blobs = << >> THEN << >>
  ELSE LET rest == sort(SubSeq(blobs, 1, Len(blobs) - 1))
           x == blobs[Len(blobs)]
           k == Cardinality({ i \in 1..Len(rest) : compared[rest[i].name][x.name] <= 0 })
       IN SubSeq(rest, 1, k) \o << x >> \o SubSeq(rest, k + 1, Len(rest))

\* ------------------------------------------------------- the working area
\* The working area of an engine is the sequence of its files in the order
\* they were created; the data of a file is the number of the job that wrote
\* it.
exists(FS, name) == \E i \in 1..Len(FS) : FS[i].name = name

\* ffmpeg.FS('writeFile', name, data): a file of that name keeps its place
writeFile(FS, name, data) ==
  IF exists(FS, name)
  THEN [i \in 1..Len(FS) |-> IF FS[i].name = name THEN [name |-> name, data |-> data] ELSE FS[i]]
  ELSE Append(FS, [name |-> name, data |-> data])

\* ffmpeg.FS('readFile', name) of a file
readFile(FS, name) == FS[CHOOSE i \in 1..Len(FS) : FS[i].name = name].data

\* an unlink that removes nothing
unlinkNothing(FS, name) == FS

\* ffmpeg.FS('unlink', name) of a file
unlink(FS, name) == SelectSeq(FS, LAMBDA entry : entry.name # name)

\* what the segment muxer writes for the output pattern of the file: n
\* files, numbered from 0 (the engine runs with -y and overwrites)
RECURSIVE segmentOutputs(_, _, _, _)
segmentOutputs(FS, name, n, data) ==
  IF n = 0 THEN FS
  ELSE writeFile(segmentOutputs(FS, name, n - 1, data), outputName(name, n - 1), data)

Reverse(s) == [i \in 1..Len(s) |-> s[Len(s) + 1 - i]]

\* ffmpeg.FS('readdir', '/'): the directories of the root and the files.  The
\* order of the listing is not specified: the order of creation, or its reverse.
readdir(FS, reversed) ==
  LET names == DirEntries \o [i \in 1..Len(FS) |-> FS[i].name]
  IN IF reversed THEN Reverse(names) ELSE names

\* resultFiles.forEach(f => ffmpeg.FS('unlink', f)): unlink throws for a
\* name that is no file, and the names after it are left
RECURSIVE unlinkEach(_, _)
unlinkEach(FS, names) ==
  IF names = << >> THEN [FS |-> FS, threw |-> FALSE]
  ELSE IF ~exists(FS, Head(names)) THEN [FS |-> FS, threw |-> TRUE]
  ELSE unlinkEach(unlink(FS, Head(names)), Tail(names))

\* readdir('/').filter(f => f.startsWith(baseName))
resultFiles(FS, name, reversed) ==
  SelectSeq(readdir(FS, reversed), LAMBDA f : startsWith(f, sourceBaseName(name)))

\* handleSplit once ffmpeg.run has resolved: the results are read, sorted
\* and published, the working area is cleaned up; an exception on the way
\* ends in the catch.  prevFiles and prevError are splitFiles and error as
\* they are when the run resolves.
afterRun(FS, name, reversed, prevFiles, prevError) ==
  LET results == resultFiles(FS, name, reversed)
      blobs == [i \in 1..Len(results) |->
                  [name |-> results[i], blob |-> readFile(FS, results[i])]]
      files == IF results = << >> THEN prevFiles ELSE sort(blobs)
      message == IF results = << >> THEN MsgNoSegments ELSE prevError
      cleaned == unlinkEach(unlink(FS, inputFileName(name)), results)
  IN IF \E i \in 1..Len(results) : ~exists(FS, results[i])
     THEN [FS |-> FS, splitFiles |-> prevFiles, error |-> MsgProcessing, status |-> "idle"]
     ELSE IF ~exists(FS, inputFileName(name))
     THEN [FS |-> FS, splitFiles |-> files, error |-> MsgProcessing, status |-> "idle"]
     ELSE IF cleaned.threw
     THEN [FS |-> cleaned.FS, splitFiles |-> files, error |-> MsgProcessing, status |-> "idle"]
     ELSE [FS |-> cleaned.FS, splitFiles |-> files, error |-> message, status |-> "done"]

\* ------------------------------------------------------------- the engine
\* createFFmpeg({ log, progress }): the progress callback closes over the
\* status of the render whose loadFFmpeg made the instance
createFFmpeg(renderedStatus) ==
  [FS |-> << >>, progressStatus |-> renderedStatus, running |-> FALSE]

\* the ratios an engine reports, in hundredths: below 0, within [0, 1],
\* above 1
Ratios == {-50, 0, 50, 100, 150}

\* the progress callback of an instance, ({ ratio }) => { ... }: the new
\* value of progressRatio; Math.round(ratio * 100) of a ratio in hundredths
\* is the ratio
onProgress(renderedStatus, ratio, prev) ==
  IF ratio >= 0 /\ ratio <= 100 /\ renderedStatus = "processing" THEN ratio ELSE prev

\* the instances that ffmpegRef or a job in flight still holds
heldEngines(engs, ref, jbs) ==
  [e \in { x \in DOMAIN engs : x = ref \/ \E j \in DOMAIN jbs : jbs[j].ffmpeg = x } |-> engs[e]]

\* status === 'loading' || status === 'processing'
isBusy == splitterStatus = "loading" \/ splitterStatus = "processing"

\* ------------------------------------------------------- handleFileSelect
handleFileSelect(selectedFile) ==
  /\ file' = selectedFile
  /\ splitFiles' = << >>
  /\ splitterError' = NoError
  /\ splitterStatus' = "idle"
  /\ UNCHANGED << splitDuration, progressRatio, ffmpegRef, windowFFMPEG, engines, jobs,
                  jobCount >>
  /\ UNCHANGED recorderVars

\* handleReset of the AudioSplitter
handleResetSplitter ==
  /\ file' = NoFile
  /\ splitFiles' = << >>
  /\ splitterError' = NoError
  /\ splitterStatus' = "idle"
  /\ UNCHANGED << splitDuration, progressRatio, ffmpegRef, windowFFMPEG, engines, jobs,
                  jobCount >>
  /\ UNCHANGED recorderVars

\* onChange of the duration input
setSplitDuration(minutes) ==
  /\ splitDuration' = minutes
  /\ UNCHANGED << file, splitterStatus, progressRatio, splitterError, splitFiles, ffmpegRef,
                  windowFFMPEG, engines, jobs, jobCount >>
  /\ UNCHANGED recorderVars

\* ------------------------------------------------------------ handleSplit
\* loadFFmpeg without its first line: the instance of ffmpegRef is ignored
cachedIgnored(current) == FALSE

\* if (ffmpegRef.current) return ffmpegRef.current
cached(current) == current # Null

\* handleSplit past its validation, up to its first await of something
\* outside: with an engine loaded it goes on to fetchFile, without one
\* loadFFmpeg polls window.FFMPEG for the first time and, finding it, makes
\* an instance and awaits its load.
handleSplitActs ==
  LET j == jobCount + 1
      e == FreshId(DOMAIN engines)
      job == [pc |-> "polling", file |-> file, splitDuration |-> splitDuration,
              attempts |-> 0, ffmpeg |-> Null, status |-> splitterStatus]
  IN /\ jobCount < MaxSplits
     /\ jobCount' = j
     /\ splitterError' = NoError
     /\ splitFiles' = << >>
     /\ IF cached(ffmpegRef)
        THEN /\ splitterStatus' = "processing"
             /\ progressRatio' = 0
             /\ jobs' = With(jobs, j, [job EXCEPT !.pc = "fetching", !.ffmpeg = ffmpegRef])
             /\ UNCHANGED engines
        ELSE /\ splitterStatus' = "loading"
             /\ UNCHANGED progressRatio
             /\ IF windowFFMPEG
                THEN /\ engines' = With(engines, e, createFFmpeg(splitterStatus))
                     /\ jobs' = With(jobs, j, [job EXCEPT !.pc = "loading", !.ffmpeg = e])
                ELSE /\ jobs' = With(jobs, j, [job EXCEPT !.attempts = 1])
                     /\ UNCHANGED engines
     /\ UNCHANGED << file, splitDuration, ffmpegRef, windowFFMPEG >>
     /\ UNCHANGED recorderVars

\* handleSplit without its two tests
handleSplitUnvalidated ==
  /\ file # NoFile
  /\ handleSplitActs

handleSplit ==
  IF file = NoFile
  THEN /\ splitterError' = MsgSelectFile
       /\ UNCHANGED << file, splitDuration, splitterStatus, progressRatio, splitFiles,
                       ffmpegRef, windowFFMPEG, engines, jobs, jobCount >>
       /\ UNCHANGED recorderVars
  ELSE IF splitDuration <= 0
  THEN /\ splitterError' = MsgDuration
       /\ UNCHANGED << file, splitDuration, splitterStatus, progressRatio, splitFiles,
                       ffmpegRef, windowFFMPEG, engines, jobs, jobCount >>
       /\ UNCHANGED recorderVars
  ELSE handleSplitActs

\* handleSplit called in any state, with at most MaxJobs jobs in flight
handleSplitWithin ==
  /\ (file # NoFile /\ splitDuration > 0) => Cardinality(DOMAIN jobs) < MaxJobs
  /\ handleSplit

\* the script of the engine has run and defined window.FFMPEG
scriptLoaded ==
  /\ ~windowFFMPEG
  /\ windowFFMPEG' = TRUE
  /\ UNCHANGED << file, splitDuration, splitterStatus, progressRatio, splitterError,
                  splitFiles, ffmpegRef, engines, jobs, jobCount >>
  /\ UNCHANGED recorderVars

\* checkFFmpeg without its limit: it schedules itself however often it has
\* run (the count is kept up to MaxAttempts + 1)
checkFFmpegUnlimited(j) ==
  /\ j \in DOMAIN jobs
  /\ jobs[j].pc = "polling"
  /\ IF windowFFMPEG
     THEN /\ engines' = With(engines, FreshId(DOMAIN engines), createFFmpeg(jobs[j].status))
          /\ jobs' = [jobs EXCEPT ![j].pc = "loading", ![j].ffmpeg = FreshId(DOMAIN engines)]
     ELSE /\ jobs' = [jobs EXCEPT ![j].attempts = IF @ <= MaxAttempts THEN @ + 1 ELSE @]
          /\ UNCHANGED engines
  /\ UNCHANGED << file, splitDuration, splitterStatus, progressRatio, splitterError,
                  splitFiles, ffmpegRef, windowFFMPEG, jobCount >>
  /\ UNCHANGED recorderVars

\* checkFFmpeg as the callback of setTimeout; the rejection leaves
\* loadFFmpeg before its try and ends in the catch of handleSplit
checkFFmpeg(j) ==
  /\ j \in DOMAIN jobs
  /\ jobs[j].pc = "polling"
  /\ IF windowFFMPEG
     THEN /\ engines' = With(engines, FreshId(DOMAIN engines), createFFmpeg(jobs[j].status))
          /\ jobs' = [jobs EXCEPT ![j].pc = "loading", ![j].ffmpeg = FreshId(DOMAIN engines)]
          /\ UNCHANGED << splitterError, splitterStatus >>
     ELSE IF jobs[j].attempts < MaxAttempts
     THEN /\ jobs' = [jobs EXCEPT ![j].attempts = @ + 1]
          /\ UNCHANGED << engines, splitterError, splitterStatus >>
     ELSE /\ jobs' = Without(jobs, j)
          /\ splitterError' = MsgProcessing
          /\ splitterStatus' = "idle"
          /\ UNCHANGED engines
  /\ UNCHANGED << file, splitDuration, progressRatio, splitFiles, ffmpegRef, windowFFMPEG,
                  jobCount >>
  /\ UNCHANGED recorderVars

\* ffmpeg.load() resolves: loadFFmpeg returns the instance and handleSplit
\* goes on to fetchFile
loadResolves(j) ==
  /\ j \in DOMAIN jobs
  /\ jobs[j].pc = "loading"
  /\ ffmpegRef' = jobs[j].ffmpeg
  /\ splitterStatus' = "processing"
  /\ progressRatio' = 0
  /\ jobs' = [jobs EXCEPT ![j].pc = "fetching"]
  /\ engines' = heldEngines(engines, ffmpegRef', jobs')
  /\ UNCHANGED << file, splitDuration, splitterError, splitFiles, windowFFMPEG, jobCount >>
  /\ UNCHANGED recorderVars

\* ffmpeg.load() rejects: the catch of loadFFmpeg sets its message and
\* rethrows, the catch of handleSplit sets its own
loadRejects(j) ==
  /\ j \in DOMAIN jobs
  /\ jobs[j].pc = "loading"
  /\ splitterError' = MsgProcessing
  /\ splitterStatus' = "idle"
  /\ jobs' = Without(jobs, j)
  /\ engines' = heldEngines(engines, ffmpegRef, jobs')
  /\ UNCHANGED << file, splitDuration, progressRatio, splitFiles, ffmpegRef, windowFFMPEG,
                  jobCount >>
  /\ UNCHANGED recorderVars

\* fetchFile resolves: the input is written (wrote: writeFile returns) and
\* ffmpeg.run is called, which throws while the instance runs a command
fetchResolves(j, wrote) ==
  /\ j \in DOMAIN jobs
  /\ jobs[j].pc = "fetching"
  /\ LET e == jobs[j].ffmpeg
         written == writeFile(engines[e].FS, inputFileName(jobs[j].file), j)
     IN IF wrote /\ ~engines[e].running
        THEN /\ engines' = [engines EXCEPT ![e].FS = written, ![e].running = TRUE]
             /\ jobs' = [jobs EXCEPT ![j].pc = "running"]
             /\ UNCHANGED << splitterError, splitterStatus >>
        ELSE /\ jobs' = Without(jobs, j)
             /\ engines' = heldEngines(IF wrote THEN [engines EXCEPT ![e].FS = written]
                                       ELSE engines, ffmpegRef, jobs')
             /\ splitterError' = MsgProcessing
             /\ splitterStatus' = "idle"
  /\ UNCHANGED << file, splitDuration, progressRatio, splitFiles, ffmpegRef, windowFFMPEG,
                  jobCount >>
  /\ UNCHANGED recorderVars

\* fetchFile rejects
fetchRejects(j) ==
  /\ j \in DOMAIN jobs
  /\ jobs[j].pc = "fetching"
  /\ jobs' = Without(jobs, j)
  /\ engines' = heldEngines(engines, ffmpegRef, jobs')
  /\ splitterError' = MsgProcessing
  /\ splitterStatus' = "idle"
  /\ UNCHANGED << file, splitDuration, progressRatio, splitFiles, ffmpegRef, windowFFMPEG,
                  jobCount >>
  /\ UNCHANGED recorderVars

\* ffmpeg.run resolves, having written n segments
runResolves(j, n, reversed) ==
  /\ j \in DOMAIN jobs
  /\ jobs[j].pc = "running"
  /\ LET e == jobs[j].ffmpeg
         r == afterRun(segmentOutputs(engines[e].FS, jobs[j].file, n, j), jobs[j].file,
                       reversed, splitFiles, splitterError)
     IN /\ jobs' = Without(jobs, j)
        /\ engines' = heldEngines([engines EXCEPT ![e].FS = r.FS, ![e].running = FALSE],
                                  ffmpegRef, jobs')
        /\ splitFiles' = r.splitFiles
        /\ splitterError' = r.error
        /\ splitterStatus' = r.status
  /\ UNCHANGED << file, splitDuration, progressRatio, ffmpegRef, windowFFMPEG, jobCount >>
  /\ UNCHANGED recorderVars

\* ffmpeg.run rejects, having written n segments
runRejects(j, n) ==
  /\ j \in DOMAIN jobs
  /\ jobs[j].pc = "running"
  /\ LET e == jobs[j].ffmpeg
     IN /\ jobs' = Without(jobs, j)
        /\ engines' = heldEngines([engines EXCEPT
                                     ![e].FS = segmentOutputs(@, jobs[j].file, n, j),
                                     ![e].running = FALSE], ffmpegRef, jobs')
  /\ splitterError' = MsgProcessing
  /\ splitterStatus' = "idle"
  /\ UNCHANGED << file, splitDuration, progressRatio, splitFiles, ffmpegRef, windowFFMPEG,
                  jobCount >>
  /\ UNCHANGED recorderVars

\* the instance e reports its progress while it runs a command
progress(e, ratio) ==
  /\ e \in DOMAIN engines
  /\ engines[e].running
  /\ progressRatio' = onProgress(engines[e].progressStatus, ratio, progressRatio)
  /\ UNCHANGED << file, splitDuration, splitterStatus, splitterError, splitFiles, ffmpegRef,
                  windowFFMPEG, engines, jobs, jobCount >>
  /\ UNCHANGED recorderVars

\* ------------------------------------------------------------------- Next
\* the handlers of the component called in any state
NextSplitter ==
  \/ \E selectedFile \in FileNames : handleFileSelect(selectedFile)
  \/ handleResetSplitter
  \/ \E minutes \in SplitDurations : setSplitDuration(minutes)
  \/ handleSplitWithin
  \/ scriptLoaded
  \/ \E j \in 1..MaxSplits : checkFFmpeg(j)
  \/ \E j \in 1..MaxSplits : loadResolves(j)
  \/ \E j \in 1..MaxSplits : loadRejects(j)
  \/ \E j \in 1..MaxSplits, wrote \in BOOLEAN : fetchResolves(j, wrote)
  \/ \E j \in 1..MaxSplits : fetchRejects(j)
  \/ \E j \in 1..MaxSplits, n \in OutputCounts, reversed \in BOOLEAN : runResolves(j, n, reversed)
  \/ \E j \in 1..MaxSplits, n \in OutputCounts : runRejects(j, n)
  \/ \E e \in Ids, ratio \in Ratios : progress(e, ratio)

SpecSplitter == Init /\ [][NextSplitter]_vars

\* the handlers called as the controls of the component allow: the file
\* input is rendered without a file, the rest with one, and all of them are
\* disabled while isBusy
chooseFile(selectedFile) ==
  /\ file = NoFile
  /\ ~isBusy
  /\ handleFileSelect(selectedFile)

clickClear ==
  /\ file # NoFile
  /\ ~isBusy
  /\ handleResetSplitter

changeDuration(minutes) ==
  /\ file # NoFile
  /\ ~isBusy
  /\ setSplitDuration(minutes)

\* the split button without its disabled attribute
clickSplitEnabled ==
  /\ file # NoFile
  /\ handleSplit

clickStartSplit ==
  /\ file # NoFile
  /\ ~(isBusy \/ file = NoFile)
  /\ handleSplit

NextSplitterUI ==
  \/ \E selectedFile \in FileNames : chooseFile(selectedFile)
  \/ clickClear
  \/ \E minutes \in SplitDurations : changeDuration(minutes)
  \/ clickStartSplit
  \/ scriptLoaded
  \/ \E j \in 1..MaxSplits : checkFFmpeg(j)
  \/ \E j \in 1..MaxSplits : loadResolves(j)
  \/ \E j \in 1..MaxSplits : loadRejects(j)
  \/ \E j \in 1..MaxSplits, wrote \in BOOLEAN : fetchResolves(j, wrote)
  \/ \E j \in 1..MaxSplits : fetchRejects(j)
  \/ \E j \in 1..MaxSplits, n \in OutputCounts, reversed \in BOOLEAN : runResolves(j, n, reversed)
  \/ \E j \in 1..MaxSplits, n \in OutputCounts : runRejects(j, n)
  \/ \E e \in Ids, ratio \in Ratios : progress(e, ratio)

SpecSplitterUI == Init /\ [][NextSplitterUI]_vars

\* The same, with what a job awaits coming about: the timeout of a poll
\* fires, and ffmpeg.load(), fetchFile and ffmpeg.run each resolve or
\* reject.  Nothing is assumed of the script or of the user.
SpecSplitterFair ==
  /\ SpecSplitterUI
  /\ WF_vars(\E j \in 1..MaxSplits : checkFFmpeg(j))
  /\ WF_vars(\E j \in 1..MaxSplits : loadResolves(j) \/ loadRejects(j))
  /\ WF_vars(\E j \in 1..MaxSplits :
               fetchRejects(j) \/ \E wrote \in BOOLEAN : fetchResolves(j, wrote))
  /\ WF_vars(\E j \in 1..MaxSplits, n \in OutputCounts :
               runRejects(j, n) \/ \E reversed \in BOOLEAN : runResolves(j, n, reversed))

\* ================================================================== claims
\* an interval callback ran in this step: one armed interval was rescheduled
\* and no call of the API was made
IntervalFired ==
  /\ lastCall' = lastCall
  /\ splitAt' = splitAt
  /\ DOMAIN timers' = DOMAIN timers
  /\ \E timer \in DOMAIN timers : timers'[timer].due > timers[timer].due

\* the continuation of a startRecording call ended in its catch block
StartFailed ==
  /\ Len(pendingStarts') < Len(pendingStarts)
  /\ recorders' = recorders

\* C1: whenever status is not Recording, no segmentation timer is armed, no
\* telemetry frame is scheduled and no capture stream with live tracks is held.
C1_ReleasedUnlessRecording ==
  status # "recording" =>
    /\ DOMAIN timers = {}
    /\ frames = {}
    /\ streamRef = Null
    /\ liveStreams = {}

\* C2: a start() that fails, made on an idle session that holds nothing and
\* with no other start in flight, leaves the session Idle with an error
\* message and without a stream, a telemetry frame or a timer.
C2_FailedStartHoldsNothing ==
  [][ ( /\ StartFailed
        /\ status = "idle"
        /\ Len(pendingStarts) = 1
        /\ liveStreams = {} /\ frames = {} /\ DOMAIN timers = {} )
      => ( /\ status' = "idle"
           /\ error' # NoError
           /\ streamRef' = Null /\ liveStreams' = {}
           /\ frames' = {}
           /\ DOMAIN timers' = {} ) ]_vars

\* C3: the names of the segments in the list are pairwise distinct.
C3_NamesDistinct ==
  \A i, j \in 1..Len(recordedChunks) :
    i # j => recordedChunks[i].name # recordedChunks[j].name

\* C3 witness: two passes ended in the same minute and the second segment got
\* the _2 suffix next to the first.
C3_Witness ==
  \E i, j \in 1..Len(recordedChunks) :
    /\ recordedChunks[i].name.base = recordedChunks[j].name.base
    /\ recordedChunks[i].name.counter = 1
    /\ recordedChunks[j].name.counter = 2

\* C4: whenever status is Recording, some recorder pass is active.
C4_RecordingHasActivePass ==
  status = "recording" => Active(recorders) # {}

\* C5: at most one recorder pass is active at any time.
C5_AtMostOneActivePass ==
  Cardinality(Active(recorders)) <= 1

\* C6: after a manual split at time T in a session with auto-split period
\* P > 0, no automatic rotation fires at a time strictly between T and T + P.
C6_NoRotationBeforeRearmedPeriod ==
  [][ ( /\ IntervalFired
        /\ status = "recording"
        /\ splitAt >= 0
        /\ segmentDurationRef > 0 )
      => ~ (splitAt < now /\ now < splitAt + segmentDurationRef) ]_vars

\* C7: once stop() or reset() has taken the session out of Recording, and as
\* long as no other call is made, no interval callback fires and no recorder
\* pass is started.
C7_NoTriggerAfterLeavingRecording ==
  [][ ( /\ status # "recording"
        /\ lastCall \in {"stop", "reset"}
        /\ pendingStarts' = pendingStarts )
      => ( /\ ~ IntervalFired
           /\ Active(recorders') \subseteq Active(recorders) ) ]_vars

\* C8: after stop() on a Recording session whose current pass recorded a
\* non-empty payload, and with no other call made, the segment of that pass is
\* appended to a session that is Stopped, as the last entry of the list.
C8_StoppedWithFinalSegment ==
  [][ ( /\ lastCall = "stop" /\ lastCall' = "stop"
        /\ eventQueue # << >>
        /\ recorders[Head(eventQueue)].endedBy = "stop"
        /\ recorders[Head(eventQueue)].data > 0
        /\ eventQueue' = Tail(eventQueue) )
      => ( /\ status' = "stopped"
           /\ Len(recordedChunks') = Len(recordedChunks) + 1 ) ]_vars

\* C9: once status is Stopped after stop(), and until another call is made,
\* no segment is appended to the list.
C9_StoppedListFrozen ==
  [][ (status = "stopped" /\ lastCall = "stop" /\ lastCall' = "stop")
      => Len(recordedChunks') <= Len(recordedChunks) ]_vars

\* C10: after reset(), as long as the session is Idle and no other call has
\* been made, the segment list is empty: a reset leaves no segment behind.
C10_ResetLeavesNoSegment ==
  (lastCall = "reset" /\ status = "idle") => recordedChunks = << >>

\* C11: a second stop() changes nothing, and reset() after stop() raises no
\* error and leaves the segment list as the first call left it.
C11_NoChangeBeyondFirstCall ==
  /\ [](status # "recording" =>
          stopRecordingResult =
            [ acted |-> FALSE,
              frames |-> frames, animationFrameIdRef |-> animationFrameIdRef,
              analyserRef |-> analyserRef, volume |-> volume,
              timers |-> timers, segmentTimerRef |-> segmentTimerRef,
              recorders |-> recorders, eventQueue |-> eventQueue,
              liveStreams |-> liveStreams, streamRef |-> streamRef,
              status |-> status ])
  /\ [][ (status = "stopped" /\ lastCall = "stop" /\ lastCall' = "reset")
           => (error' = NoError /\ recordedChunks' = recordedChunks) ]_vars

\* C11 (amended): a second stop() changes nothing; reset() after stop()
\* raises no error, and what it does to the segment list is to empty it.
C11_SecondStopNothingResetEmpties ==
  /\ [](status # "recording" =>
          stopRecordingResult =
            [ acted |-> FALSE,
              frames |-> frames, animationFrameIdRef |-> animationFrameIdRef,
              analyserRef |-> analyserRef, volume |-> volume,
              timers |-> timers, segmentTimerRef |-> segmentTimerRef,
              recorders |-> recorders, eventQueue |-> eventQueue,
              liveStreams |-> liveStreams, streamRef |-> streamRef,
              status |-> status ])
  /\ [][ (status = "stopped" /\ lastCall = "stop" /\ lastCall' = "reset")
           => (error' = NoError /\ recordedChunks' = << >> /\ status' = "idle") ]_vars

\* a session stopped with a segment in its list, where stop() or reset() is
\* called next
C11_Witness ==
  /\ status = "stopped"
  /\ lastCall = "stop"
  /\ mediaRecorderRef # Null
  /\ Len(recordedChunks) > 0

\* C12: the task of a pass that gathered no data (ended by split, rotation
\* or stop) leaves the segment list as it was.
C12_EmptyPassAppendsNothing ==
  [][ (/\ eventQueue # << >>
       /\ eventQueue' = Tail(eventQueue)
       /\ recorders[Head(eventQueue)].data = 0)
      => recordedChunks' = recordedChunks ]_vars

\* the task of an empty pass is queued while the list holds a segment
C12_Witness ==
  /\ eventQueue # << >>
  /\ recorders[Head(eventQueue)].data = 0
  /\ Len(recordedChunks) > 0

\* the task of the recorder at the head of the queue ran in this step and
\* appended a segment
SegmentAppended ==
  /\ eventQueue # << >>
  /\ eventQueue' = Tail(eventQueue)
  /\ Len(recordedChunks') = Len(recordedChunks) + 1

AnalysisFailed ==
  /\ Len(pendingStarts') < Len(pendingStarts)
  /\ liveStreams' # liveStreams
  /\ frames' = frames

\* C14: when the analysis resource fails after the stream was obtained, the
\* session is Recording with its first pass started, no telemetry loop runs
\* for it and the level is not changed.
C14_AnalysisFailureStillRecords ==
  [][ (AnalysisFailed /\ status # "recording")
      => /\ status' = "recording"
         /\ mediaRecorderRef' # mediaRecorderRef
         /\ isRecording(recorders', mediaRecorderRef')
         /\ volume' = volume ]_vars

\* C15: once stop() or reset() has torn the session down, the level is 0 and
\* stays 0 until a start() succeeds: the session is Stopped, or not
\* Recording with stop() or reset() as the last call that acted.
C15_NoSampleAfterTeardown ==
  (status = "stopped" \/ (status # "recording" /\ lastCall \in {"stop", "reset"}))
    => volume = 0

\* C16: startRecording called while the session is Recording changes
\* nothing: status, stream, active pass, timer, format, period, segments and
\* error are as before.
C16_StartWhileRecordingNoOp ==
  [][ (status = "recording"
       /\ \E mimeType \in MimeTypes, minutes \in Durations : startRecording(mimeType, minutes))
      => UNCHANGED << status, streamRef, liveStreams, mediaRecorderRef, recorders,
                      segmentTimerRef, timers, mimeTypeRef, segmentDurationRef,
                      recordedChunks, error >> ]_vars

\* C17: splitSegment called while the session is Idle or Stopped changes
\* nothing: no recorder is started, no interval is armed, status and
\* segments are as before.
C17_SplitOutsideRecordingNoOp ==
  [][ (status # "recording" /\ splitSegment)
      => UNCHANGED << recorders, mediaRecorderRef, eventQueue, timers, segmentTimerRef,
                      status, recordedChunks >> ]_vars

\* a stopped session with a period set and a stream left by a failed start:
\* splitSegment would start a pass and arm an interval here
C17_Witness ==
  /\ status = "stopped"
  /\ segmentDurationRef > 0
  /\ streamRef # Null
  /\ isTypeSupported(mimeTypeRef)
  /\ PassCapacity

C19_AppendOnlyWhileRecording ==
  [][ status = "recording"
      => \/ recordedChunks' = recordedChunks
         \/ /\ SegmentAppended
            /\ SubSeq(recordedChunks', 1, Len(recordedChunks)) = recordedChunks
            /\ recordedChunks'[Len(recordedChunks')].blob
                 = << recorders[Head(eventQueue)].data >> ]_vars

\* while Recording, with a segment in the list, the task of a pass with data
\* is queued
C19_Witness ==
  /\ status = "recording"
  /\ Len(recordedChunks) > 0
  /\ eventQueue # << >>
  /\ recorders[Head(eventQueue)].data > 0

\* C20: while the session is Recording, one interval is armed if the period
\* of the session is positive and none if it is 0, whatever splits and
\* rotations have happened; and with period 0 and no split no pass is ended
\* by a rotation, so that stop() ends the only pass.
C20_OneTriggerIffPeriod ==
  status = "recording"
    => /\ Cardinality(DOMAIN timers) = (IF segmentDurationRef > 0 THEN 1 ELSE 0)
       /\ (segmentDurationRef = 0 /\ splitAt = -1)
            => \A r \in DOMAIN recorders : recorders[r].endedBy # "rotation"

\* the name as the string it is, in UTF-16 code units:
\* `${baseName}.${ext}` or `${baseName}_${counter}.${ext}`
RECURSIVE digits(_)
digits(n) == IF n < 10 THEN << 48 + n >> ELSE digits(n \div 10) \o << 48 + (n % 10) >>

nameString(name) ==
  [i \in 1..Len(name.base) |-> 48 + name.base[i]]
    \o (IF name.counter = 1 THEN << >> ELSE << 95 >> \o digits(name.counter))
    \o << 46 >>
    \o (CASE name.ext = "webm" -> << 119, 101, 98, 109 >>
           [] name.ext = "mp4" -> << 109, 112, 52 >>)

\* a < b for strings
RECURSIVE before(_, _)
before(a, b) ==
  IF b = << >> THEN FALSE
  ELSE IF a = << >> THEN TRUE
  ELSE IF Head(a) # Head(b) THEN Head(a) < Head(b)
  ELSE before(Tail(a), Tail(b))

NamesIncreasing ==
  \A i \in 1..(Len(recordedChunks) - 1) :
    before(nameString(recordedChunks[i].name), nameString(recordedChunks[i + 1].name))

\* the session was stopped and every stop event has been handled
SessionOver == lastCall = "stop" /\ eventQueue = << >>

\* the segments in the list and the passes with audio that are to become one
Audio ==
  Len(recordedChunks)
    + Cardinality({ r \in Active(recorders) \cup Range(eventQueue) : recorders[r].data > 0 })

errorClass(err) ==
  IF ~ err.isError THEN "non-Error"
  ELSE IF err.name \in {"NotAllowedError", "PermissionDeniedError"} THEN "permission"
  ELSE "other"

Thrown ==
  Rejections \cup {AnalysisError, RecorderError}
    \cup {[isError |-> TRUE, name |-> "PermissionDeniedError", message |-> "Permission denied"]}

\* msg is a message, and no failure of another class than err gives it
Distinguishes(err, msg) ==
  /\ msg # NoError
  /\ \A other \in Thrown : errorClass(other) # errorClass(err) => catch(other) # msg

\* C22: every failed start sets one error message, and the message tells
\* the class of the failure: a failure of another class gives another one.
C22_MessageTellsFailureClass ==
  [][ \A i \in 1..MaxStreams :
        /\ \A err \in Rejections : startRejected(i, err) => Distinguishes(err, error')
        /\ startAnalysisFailed(i) => Distinguishes(AnalysisError, error')
        /\ \A rms \in 1..MaxRms :
             startRecorderFailed(i, rms) => Distinguishes(RecorderError, error') ]_vars

\* a start has failed for a denied permission
C22_Witness ==
  /\ error = MsgPermissionDenied
  /\ pendingStarts = << >>

\* the files of the working areas written by a job that is no longer in
\* flight
leftBehind ==
  { entry \in UNION { Range(engines[e].FS) : e \in DOMAIN engines } :
      entry.data \notin DOMAIN jobs }

\* C23: once a call of handleSplit that reached the engine has ended, in
\* success, in zero outputs or in an exception, the working area holds
\* neither the input nor an output that the job wrote.
C23_WorkingAreaCleanAfterJob == leftBehind = {}

\* the job j ends in this step while it waits for the engine: the last poll
\* of window.FFMPEG finds nothing, or ffmpeg.load() rejects
EngineUnavailable(j) ==
  /\ j \in DOMAIN jobs
  /\ jobs[j].pc \in {"polling", "loading"}
  /\ j \notin DOMAIN jobs'

\* C24: a job whose engine does not become available, by the poll limit or
\* by a failed load, ends with status idle and with the engine-unavailable
\* message as the error, not the generic processing-failure message.
C24_EngineUnavailableMessage ==
  [][ \A j \in 1..MaxSplits :
        EngineUnavailable(j) => splitterStatus' = "idle" /\ splitterError' = MsgEngine ]_vars

\* C25: handleSplit without a file or with a split duration that is not
\* positive sets its validation message and changes nothing else: no engine
\* is made, loaded or used, no job begins, and status, progressRatio and
\* splitFiles stay as they are.
C25_ValidationSetsOnlyError ==
  [][ (handleSplit /\ (file = NoFile \/ splitDuration <= 0))
      => /\ splitterError' = IF file = NoFile THEN MsgSelectFile ELSE MsgDuration
         /\ UNCHANGED << file, splitDuration, splitterStatus, progressRatio, splitFiles,
                         ffmpegRef, windowFFMPEG, engines, jobs, jobCount >> ]_vars

\* handleSplit was called without a file while a job is processing
C25_Witness ==
  /\ splitterError = MsgSelectFile
  /\ file = NoFile
  /\ splitterStatus = "processing"
  /\ jobs # << >>

\* name is `${stem}_${digits}.${ext}`: the parts of such a name
isSegmentName(name) ==
  LET underscore == lastIndexOf(name, "_")
      dot == lastIndexOf(name, ".")
  IN /\ underscore >= 0
     /\ dot > underscore + 1
     /\ \A i \in (underscore + 2)..dot : isDigit(name[i])

stemOf(name) == substring(name, 0, lastIndexOf(name, "_"))

extensionOf(name) == substring(name, lastIndexOf(name, ".") + 1, Len(name))

suffixOf(name) == numberOf(substring(name, lastIndexOf(name, "_") + 1, lastIndexOf(name, ".")))

\* C26: the segments of splitFiles that differ in their number alone stand
\* in the ascending order of the number, also when there are ten or more of
\* them.
C26_OrderedByNumericSuffix ==
  \A i, j \in 1..Len(splitFiles) :
    ( /\ i < j
      /\ isSegmentName(splitFiles[i].name)
      /\ isSegmentName(splitFiles[j].name)
      /\ stemOf(splitFiles[i].name) = stemOf(splitFiles[j].name)
      /\ extensionOf(splitFiles[i].name) = extensionOf(splitFiles[j].name) )
    => suffixOf(splitFiles[i].name) < suffixOf(splitFiles[j].name)

\* a job has ended with eleven segments, numbered 0 to 10
C26_Witness ==
  /\ splitterStatus = "done"
  /\ Len(splitFiles) = 11
  /\ \A i \in 1..11 : isSegmentName(splitFiles[i].name) /\ suffixOf(splitFiles[i].name) = i - 1

\* C27: the results of a job are the entries of the working area whose name
\* starts with the base name of the file and are never the input entry of
\* the job: no segment of splitFiles has the input name of the chosen file.
C27_ResultsNeverTheInput ==
  \A i \in 1..Len(splitFiles) :
    file # NoFile => splitFiles[i].name # inputFileName(file)

\* C28: splitFiles has entries only after a successful job: whenever it is
\* not empty the status is done and there is no error.
C28_SegmentsOnlyWhenDone ==
  splitFiles # << >> => splitterStatus = "done" /\ splitterError = NoError

\* the working area of job j as ffmpeg.run leaves it, having written n
\* segments
areaAfterRun(j, n) ==
  segmentOutputs(engines[jobs[j].ffmpeg].FS, jobs[j].file, n, j)

\* C29: when the run of a job resolves and no entry of the working area
\* starts with the base name of the file, the job sets the no-segments
\* message, leaves splitFiles empty, ends with status done, and its input
\* is no longer in the working area.
C29_NoSegmentsProduced ==
  [][ \A j \in 1..MaxSplits, n \in OutputCounts, reversed \in BOOLEAN :
        ( /\ runResolves(j, n, reversed)
          /\ resultFiles(areaAfterRun(j, n), jobs[j].file, reversed) = << >> )
        => /\ splitterError' = MsgNoSegments
           /\ splitFiles' = << >>
           /\ splitterStatus' = "done"
           /\ ~ exists(engines'[jobs[j].ffmpeg].FS, inputFileName(jobs[j].file)) ]_vars

\* a job has ended without segments and with an empty working area
C29_Witness ==
  /\ splitterStatus = "done"
  /\ splitterError = MsgNoSegments
  /\ splitFiles = << >>
  /\ jobs = << >>
  /\ ffmpegRef # Null
  /\ engines[ffmpegRef].FS = << >>

\* the job j ends in this step by an exception of a step that uses the
\* engine: writeFile, run, readdir, readFile or unlink
JobThrew(j) ==
  /\ j \in DOMAIN jobs
  /\ jobs[j].pc \in {"fetching", "running"}
  /\ j \notin DOMAIN jobs'
  /\ splitterStatus' # "done"

\* C30: a job in which a step of the engine throws ends with status idle,
\* with the generic processing-failure message as the error, and with
\* splitFiles empty.
C30_ExceptionLeavesNoSegments ==
  [][ \A j \in 1..MaxSplits :
        JobThrew(j) => /\ splitterStatus' = "idle"
                       /\ splitterError' = MsgProcessing
                       /\ splitFiles' = << >> ]_vars

\* C31: through the controls of the component at most one job is in flight,
\* loading the engine or processing: handleSplit does not begin a job while
\* another one is busy.
C31_OneJobAtATime == Cardinality(DOMAIN jobs) <= 1

\* the second job runs the engine, the first one having ended
C31_Witness ==
  /\ DOMAIN jobs = {2}
  /\ jobs[2].pc = "running"
  /\ splitterStatus = "processing"

\* a job begins in this step
JobBegins == jobCount' = jobCount + 1

\* the load of the engine awaited by job j resolves in this step
LoadSucceeds(j) ==
  /\ j \in DOMAIN jobs
  /\ jobs[j].pc = "loading"
  /\ j \in DOMAIN jobs'
  /\ jobs'[j].pc = "fetching"

\* C32: no engine is made before the first job; a load that resolves
\* caches its instance; from then on ffmpegRef keeps that instance, no
\* further instance is made, and a job that begins goes to processing with
\* it and not to loading; a job that ends while it waits for the engine
\* caches nothing, and a job that begins without a cached instance loads.
C32_EngineLoadedLazilyOnce ==
  /\ [](jobCount = 0 => engines = << >> /\ ffmpegRef = Null)
  /\ [][ \A j \in 1..MaxSplits : LoadSucceeds(j) => ffmpegRef' = jobs[j].ffmpeg ]_vars
  /\ [][ ffmpegRef # Null
         => /\ ffmpegRef' = ffmpegRef
            /\ DOMAIN engines' = {ffmpegRef}
            /\ splitterStatus' # "loading"
            /\ JobBegins => /\ splitterStatus' = "processing"
                            /\ jobs'[jobCount'].pc = "fetching"
                            /\ jobs'[jobCount'].ffmpeg = ffmpegRef ]_vars
  /\ [][ \A j \in 1..MaxSplits : EngineUnavailable(j) => ffmpegRef' = Null ]_vars
  /\ [][ (JobBegins /\ ffmpegRef = Null)
         => /\ splitterStatus' = "loading"
            /\ jobs'[jobCount'].pc \in {"polling", "loading"} ]_vars

\* the second job uses the instance that the first job loaded
C32_Witness ==
  /\ DOMAIN jobs = {2}
  /\ jobs[2].pc = "fetching"
  /\ jobs[2].ffmpeg = ffmpegRef
  /\ DOMAIN engines = {ffmpegRef}

\* C33: a progress event of an instance that runs a command sets
\* progressRatio to the reported ratio if the status is processing and the
\* ratio lies in [0, 1], and leaves it as it is otherwise; stated of the
\* value the callback gives in every state in which an instance runs.
C33_ProgressAcceptedIffProcessing ==
  \A e \in DOMAIN engines : \A ratio \in Ratios :
    engines[e].running
    => onProgress(engines[e].progressStatus, ratio, progressRatio)
         = IF splitterStatus = "processing" /\ ratio >= 0 /\ ratio <= 100
           THEN ratio ELSE progressRatio

\* C34: every job ends: a call of handleSplit that began a job, loading the
\* engine or processing, is followed by a state without a job in which the
\* status is done or idle, and the wait for window.FFMPEG schedules at most
\* MaxAttempts polls.
C34_EveryJobEnds ==
  /\ [](\A j \in DOMAIN jobs : jobs[j].attempts <= MaxAttempts)
  /\ (jobs # << >>) ~> (jobs = << >> /\ splitterStatus \in {"done", "idle"})

\* the job awaits its last poll of window.FFMPEG
C34_Witness ==
  /\ DOMAIN jobs = {1}
  /\ jobs[1].pc = "polling"
  /\ jobs[1].attempts = MaxAttempts
  /\ ~ windowFFMPEG

\* C35: the task of a stopped pass appends at most one segment, whose payload
\* is exactly the non-empty chunk that pass gathered, whatever pass records
\* by then; a pass without audio appends nothing; a payload in the list is
\* never changed afterwards and no other step adds a segment.
C35_ChunkInSegmentOfItsPass ==
  [][ LET delivered == eventQueue # << >> /\ eventQueue' = Tail(eventQueue)
          n == Len(recordedChunks)
      IN /\ delivered =>
               LET rec == recorders[Head(eventQueue)]
               IN IF rec.data > 0
                  THEN /\ Len(recordedChunks') = n + 1
                       /\ \A i \in 1..n : recordedChunks'[i] = recordedChunks[i]
                       /\ recordedChunks'[n + 1].blob = << rec.data >>
                  ELSE recordedChunks' = recordedChunks
         /\ ~ delivered =>
               \A i \in 1..Len(recordedChunks') :
                 \E k \in 1..n : recordedChunks'[i] = recordedChunks[k] ]_vars

\* a rotation ended a pass with audio, and its segment was appended while the
\* next pass, which has gathered nothing yet, records
C35_Witness ==
  /\ status = "recording"
  /\ lastCall = "other"
  /\ eventQueue = << >>
  /\ Len(recordedChunks) = 1
  /\ recordedChunks[1].blob = << 1 >>
  /\ isRecording(recorders, mediaRecorderRef)
  /\ recorders[mediaRecorderRef].data = 0

\* the step of the Recorder effect: a stopped session with an empty list is
\* reset without a call of the user
ImplicitReset ==
  /\ status = "stopped"
  /\ Len(recordedChunks) = 0
  /\ status' = "idle"
  /\ lastCall' = lastCall

\* C36: the implicit reset leaves the session idle with its stream released
\* and its timer cancelled, and it is taken only when the stop yields no
\* segment: no stopped pass with audio still awaits its stop event.
C36_ImplicitTeardown ==
  [][ ImplicitReset =>
        /\ streamRef' = Null
        /\ streamRef # Null => streamRef \notin liveStreams'
        /\ segmentTimerRef' = Null
        /\ segmentTimerRef # Null => segmentTimerRef \notin DOMAIN timers'
        /\ \A r \in Range(eventQueue) : recorders[r].data = 0 ]_vars

\* C37: a capture stream whose tracks are live is the one streamRef holds: no
\* stream is left live with its handle dropped or overwritten.
C37_LiveStreamIsHeld ==
  \A stream \in liveStreams : streamRef = stream

\* C38: a segment appended to the list is named after the minute of its stop
\* event with the first suffix (none, _2, _3, ...) whose name no segment of
\* the list has at that moment: every earlier suffix is in use, whatever was
\* deleted before.
C38_FirstUnusedName ==
  [][ Len(recordedChunks') = Len(recordedChunks) + 1 =>
        LET new == recordedChunks'[Len(recordedChunks')].name
            used(c) == \E i \in 1..Len(recordedChunks) :
                         recordedChunks[i].name =
                           [base |-> new.base, counter |-> c, ext |-> new.ext]
        IN /\ new.base = baseName(now)
           /\ new.counter >= 1
           /\ ~ used(new.counter)
           /\ \A c \in 1..(new.counter - 1) : used(c) ]_vars

\* the segment with the bare name was deleted while the _2 segment of the
\* same minute stayed, and a later pass ending in that minute got the bare
\* name again
C38_Witness ==
  /\ Len(recordedChunks) = 2
  /\ recordedChunks[1].name.counter = 2
  /\ recordedChunks[2].name =
       [recordedChunks[1].name EXCEPT !.counter = 1]

\* C39: the segments a job publishes when its run resolves were all written
\* by that job: none is a file that an earlier job left in the working area.
C39_ResultsWrittenByTheJob ==
  [][ \A j \in 1..MaxSplits, n \in OutputCounts, reversed \in BOOLEAN :
        runResolves(j, n, reversed) =>
          \A i \in 1..Len(splitFiles') : splitFiles'[i].blob = j ]_vars

\* the step of a call of startRecording that passes the test of status
StartCalled == Len(pendingStarts') = Len(pendingStarts) + 1

\* C40: a call of startRecording on a stopped session awaits the stream and
\* leaves status and the list as they are; the continuation that completes
\* on a stopped session sets status recording with a stream that was not
\* live before, a new recording pass without audio and, for a period above
\* 0, a new interval of that period, and keeps the list; a segment added to
\* the list goes after the ones already there, which keep their places.
C40_StartFromStoppedKeepsList ==
  [][ /\ (status = "stopped" /\ StartCalled) =>
            /\ recordedChunks' = recordedChunks
            /\ status' = "stopped"
      /\ (status = "stopped" /\ status' = "recording") =>
            /\ recordedChunks' = recordedChunks
            /\ streamRef' \in liveStreams' \ liveStreams
            /\ mediaRecorderRef' \in Active(recorders') \ DOMAIN recorders
            /\ recorders'[mediaRecorderRef'].data = 0
            /\ \E i \in 1..Len(pendingStarts) :
                 /\ pendingStarts' = Settled(i)
                 /\ LET period == pendingStarts[i].segmentDurationMinutes
                    IN IF period > 0
                       THEN /\ segmentTimerRef' \in DOMAIN timers' \ DOMAIN timers
                            /\ timers'[segmentTimerRef'].period = period
                            /\ timers'[segmentTimerRef'].due = now + period
                       ELSE timers' = timers
      /\ Len(recordedChunks') > Len(recordedChunks) =>
            \A k \in 1..Len(recordedChunks) : recordedChunks'[k] = recordedChunks[k] ]_vars

\* startRecording was called on a stopped session that has a segment: the
\* stream is awaited and the segment is still in the list
C40_Witness ==
  /\ status = "stopped"
  /\ lastCall = "start"
  /\ pendingStarts # << >>
  /\ Len(recordedChunks) = 1
  /\ eventQueue = << >>

====
